---- MODULE Spec2Model ----
(***************************************************************************)
(* Model of syma_driver.c: the Arduino sketch that frames a 4-byte command *)
(* (yaw, pitch, throttle, trim) into the Syma S107 infra-red pulse train,  *)
(* paces the packets, and takes new commands from a serial channel.        *)
(*                                                                         *)
(* Arrays are functions on 0..n-1, as in the C source.  The infra-red      *)
(* output of one sendPacket call is recorded in `events` as a sequence of  *)
(* <<"pulse", cycles>> and <<"hold", microseconds>>.                       *)
(***************************************************************************)
EXTENDS Integers, Sequences, FiniteSets, TLC

\* ------------------------------------------------------------------------
\* Program constants (#defines)
\* ------------------------------------------------------------------------
YAW == 0
PITCH == 1
THROTTLE == 2
TRIM == 3

BYTES_IN_PACKET == 4
BITS_IN_BYTE == 8

PACKETS_PER_SECOND == 10
MICROSECONDS_IN_A_SECOND == 1000

ZERO_YAW == 63
ZERO_PITCH == 63
ZERO_THROTTLE == 0
ZERO_TRIM == 63

CYCLES_FOR_HEADER == 77
CYCLES_FOR_BIT == 12
CYCLES_FOR_FOOTER == 12
CYCLE_TIME == 26

HEADER_DELAY == 1998
ONE == 688
ZERO == 288

BIT_0 == 1
BIT_1 == 2
BIT_2 == 4
BIT_3 == 8
BIT_4 == 16
BIT_5 == 32
BIT_6 == 64
BIT_7 == 128

READY_TO_ACCEPT_ACK == 129

\* static const byte bit_masks[]
bit_masks == [i \in 0..7 |->
                CASE i = 0 -> BIT_0 [] i = 1 -> BIT_1 [] i = 2 -> BIT_2
                  [] i = 3 -> BIT_3 [] i = 4 -> BIT_4 [] i = 5 -> BIT_5
                  [] i = 6 -> BIT_6 [] i = 7 -> BIT_7]

\* ------------------------------------------------------------------------
\* Bounds of the model
\* ------------------------------------------------------------------------
\* most unread bytes the host actions let pile up while the loop runs; the
\* sketch itself puts no bound on them (the buffer belongs to the core)
MaxRx == 5
\* most written bytes explored as not yet on the wire; not a bound of the
\* sketch either
MaxTx == 1
\* largest number of cycles pulse() is called with on its own
MaxCycles == 100
\* most bytes a host has sent ahead before the loop polls for the first time
MaxBacklog == 8
\* most bytes a host that answers ready bytes can be behind with
MaxOwed == 8

\* byte values the host sends in the loop model
HostBytes == {1, 255}
\* byte values of the commands in the single-packet model
TestBytes == {0, 1, 63, 128, 255}
\* widths of `int` the sketch is built with (AVR boards: 16, ARM boards: 32)
IntWidths == {16, 32}

\* ------------------------------------------------------------------------
\* C arithmetic
\* ------------------------------------------------------------------------
\* a & b on non-negative operands
RECURSIVE BitAnd(_, _)
BitAnd(a, b) ==
    IF a = 0 \/ b = 0 THEN 0
    ELSE (a % 2) * (b % 2) + 2 * BitAnd(a \div 2, b \div 2)

\* largest value of a signed int of the given width
INT_MAX(bits) == (2^(bits - 2) - 1) * 2 + 1
INT_MIN(bits) == (-INT_MAX(bits)) - 1

\* value of an int expression whose mathematical value is x: two's
\* complement wrap-around to the width of int
RECURSIVE WrapInt(_, _)
WrapInt(x, bits) ==
    IF x > INT_MAX(bits) THEN WrapInt(((x - INT_MAX(bits)) - INT_MAX(bits)) - 2, bits)
    ELSE IF x < INT_MIN(bits) THEN WrapInt(((x + INT_MAX(bits)) + INT_MAX(bits)) + 2, bits)
    ELSE x

\* conversion of the real number n / d to int: truncation toward zero
TruncDiv(n, d) == IF n >= 0 THEN n \div d ELSE -((-n) \div d)

\* ------------------------------------------------------------------------
\* Timing arithmetic at the end of sendPacket
\* ------------------------------------------------------------------------
header_time(bits) == WrapInt(WrapInt(CYCLES_FOR_HEADER * CYCLE_TIME, bits) + HEADER_DELAY, bits)
footer_time(bits) == WrapInt(CYCLES_FOR_FOOTER * CYCLE_TIME, bits)
total_bit_start_time(bits) ==
    WrapInt(WrapInt(WrapInt(CYCLES_FOR_BIT * CYCLE_TIME, bits) * BITS_IN_BYTE, bits) * BYTES_IN_PACKET, bits)
ones_time(o, bits) == WrapInt(ONE * o, bits)
zeroes_time(z, bits) == WrapInt(ZERO * z, bits)
total_packet_time(o, z, bits) ==
    WrapInt(WrapInt(WrapInt(WrapInt(header_time(bits) + footer_time(bits), bits)
                            + total_bit_start_time(bits), bits)
                    + ones_time(o, bits), bits)
            + zeroes_time(z, bits), bits)

\* residual with the operands of the subtraction exchanged
residual_Swapped(o, z, bits) ==
    WrapInt(TruncDiv(total_packet_time(o, z, bits)
                       - (MICROSECONDS_IN_A_SECOND \div PACKETS_PER_SECOND) * MICROSECONDS_IN_A_SECOND,
                     MICROSECONDS_IN_A_SECOND), bits)

\* (M / P) - ((float) total_packet_time / M), converted to int.
\* As a real number this is ((M / P) * M - total_packet_time) / M.
residual(o, z, bits) ==
    WrapInt(TruncDiv((MICROSECONDS_IN_A_SECOND \div PACKETS_PER_SECOND) * MICROSECONDS_IN_A_SECOND
                       - total_packet_time(o, z, bits),
                     MICROSECONDS_IN_A_SECOND), bits)

\* ------------------------------------------------------------------------
\* The carrier burst
\* ------------------------------------------------------------------------
\* pulse with the two writes of a cycle exchanged
RECURSIVE pulse_Inverted(_)
pulse_Inverted(cycles) ==
    IF cycles > 0 THEN <<"LOW", "HIGH">> \o pulse_Inverted(cycles - 1)
    ELSE <<>>

\* pulse(cycles): the levels it writes to the LED pin, in order
RECURSIVE pulse(_)
pulse(cycles) ==
    IF cycles > 0 THEN <<"HIGH", "LOW">> \o pulse(cycles - 1)
    ELSE <<>>

\* the writes of the three bursts of a packet: header(), the pulse at the
\* start of a bit, footer()
header_burst == pulse(CYCLES_FOR_HEADER)
bit_burst == pulse(CYCLES_FOR_BIT)
footer_burst == pulse(CYCLES_FOR_FOOTER)

\* level of a pin that was at `level` after the given writes
LevelAfter(writes, level) == IF writes = <<>> THEN level ELSE writes[Len(writes)]

\* ------------------------------------------------------------------------
\* State
\* ------------------------------------------------------------------------
VARIABLES
    command,            \* byte command[4]
    rx,                 \* serial receive buffer: bytes from the host, oldest first
    to_host,            \* serial transmit buffer: bytes written to the host
    pc,                 \* position of loop(): "poll", "call", "bits", "delay", "ack";
                        \* "pulse" when pulse() is exercised on its own
    ones, zeroes,       \* statics of sendPacket
    current_byte_index, current_bit_index,
    packet_bytes,       \* static byte packet_bytes[4]
    events,             \* infra-red output of the current sendPacket call
    ret,                \* value returned by sendPacket, until delay() has taken it:
                        \* <<>> or <<value>>
    int_bits,           \* width of int in this build
    led,                \* level of the LED pin: "HIGH" or "LOW"
    led_writes,         \* levels written to the LED pin by the last pulse() call
    host_owes           \* bytes of requested updates the host has still to send

vars == <<command, rx, to_host, pc, ones, zeroes, current_byte_index,
          current_bit_index, packet_bytes, events, ret, int_bits,
          led, led_writes, host_owes>>

statics == <<ones, zeroes, current_byte_index, current_bit_index, packet_bytes>>

Byte == 0..255

TypeOK ==
    /\ command \in [0..3 -> Byte]
    /\ rx \in Seq(Byte)
    /\ to_host \in Seq(Byte)
    /\ pc \in {"poll", "call", "bits", "delay", "ack", "pulse"}
    /\ ones \in Nat /\ zeroes \in Nat
    /\ current_byte_index \in 0..BYTES_IN_PACKET
    /\ current_bit_index \in 0..(BITS_IN_BYTE - 1)
    /\ packet_bytes \in [0..3 -> Byte]
    /\ ret \in Seq(Int) /\ Len(ret) <= 1
    /\ int_bits \in IntWidths
    /\ led \in {"HIGH", "LOW"}
    /\ led_writes \in Seq({"HIGH", "LOW"})
    /\ host_owes \in Nat

\* byte command[4] = {ZERO_YAW, ZERO_PITCH, ZERO_THROTTLE, ZERO_TRIM}
DefaultCommand ==
    [i \in 0..3 |-> CASE i = YAW -> ZERO_YAW [] i = PITCH -> ZERO_PITCH
                      [] i = THROTTLE -> ZERO_THROTTLE [] i = TRIM -> ZERO_TRIM]

\* state when loop() is entered: globals and statics as initialised
Init ==
    /\ command = DefaultCommand
    /\ rx = <<>>
    /\ to_host = <<>>
    /\ pc = "poll"
    /\ ones = 0 /\ zeroes = 0
    /\ current_byte_index = 0 /\ current_bit_index = 0
    /\ packet_bytes = [i \in 0..3 |-> 0]
    /\ events = <<>>
    /\ ret = <<>>
    /\ int_bits \in IntWidths
    /\ led = "LOW"
    /\ led_writes = <<>>
    /\ host_owes = 0

\* ------------------------------------------------------------------------
\* loop(): poll of the serial buffer
\* ------------------------------------------------------------------------
\* Poll that reads as soon as one byte is available (Serial.read() of an
\* empty buffer gives -1, stored as the byte 255)
Poll_Greedy ==
    /\ pc = "poll"
    /\ IF Len(rx) >= 1
         THEN /\ command' = [i \in 0..3 |-> IF i + 1 <= Len(rx) THEN rx[i + 1] ELSE 255]
              /\ rx' = SubSeq(rx, 5, Len(rx))
         ELSE UNCHANGED <<command, rx>>
    /\ pc' = "call"
    /\ UNCHANGED <<to_host, statics, events, ret, int_bits, host_owes, led, led_writes>>

\* Poll that also runs between the bits of a packet, as a receive interrupt would
Poll_Interrupting ==
    /\ pc \in {"poll", "bits"}
    /\ IF Len(rx) >= BYTES_IN_PACKET
         THEN /\ command' = [i \in 0..3 |-> rx[i + 1]]
              /\ rx' = SubSeq(rx, 5, Len(rx))
         ELSE pc = "poll" /\ UNCHANGED <<command, rx>>
    /\ pc' = IF pc = "poll" THEN "call" ELSE pc
    /\ UNCHANGED <<to_host, statics, events, ret, int_bits, host_owes, led, led_writes>>

\* Poll that empties the buffer of whole updates and keeps the last of them
Poll_Newest ==
    /\ pc = "poll"
    /\ IF Len(rx) >= BYTES_IN_PACKET
         THEN LET n == Len(rx) \div BYTES_IN_PACKET
              IN /\ command' = [i \in 0..3 |-> rx[BYTES_IN_PACKET * (n - 1) + i + 1]]
                 /\ rx' = SubSeq(rx, BYTES_IN_PACKET * n + 1, Len(rx))
         ELSE UNCHANGED <<command, rx>>
    /\ pc' = "call"
    /\ UNCHANGED <<to_host, statics, events, ret, int_bits, host_owes, led, led_writes>>

\* Poll that falls back to the default command when no update is complete
Poll_Clearing ==
    /\ pc = "poll"
    /\ IF Len(rx) >= BYTES_IN_PACKET
         THEN /\ command' = [i \in 0..3 |-> rx[i + 1]]
              /\ rx' = SubSeq(rx, 5, Len(rx))
         ELSE /\ command' = DefaultCommand
              /\ rx' = rx
    /\ pc' = "call"
    /\ UNCHANGED <<to_host, statics, events, ret, int_bits, host_owes, led, led_writes>>

\* Poll with the bytes stored from the last subscript down
Poll_Reversed ==
    /\ pc = "poll"
    /\ IF Len(rx) >= BYTES_IN_PACKET
         THEN /\ command' = [i \in 0..3 |-> rx[(3 - i) + 1]]
              /\ rx' = SubSeq(rx, 5, Len(rx))
         ELSE UNCHANGED <<command, rx>>
    /\ pc' = "call"
    /\ UNCHANGED <<to_host, statics, events, ret, int_bits, host_owes, led, led_writes>>

\* if(Serial.available() >= BYTES_IN_PACKET) for(i < 4) command[i] = Serial.read();
Poll ==
    /\ pc = "poll"
    /\ IF Len(rx) >= BYTES_IN_PACKET
         THEN /\ command' = [i \in 0..3 |-> rx[i + 1]]
              /\ rx' = SubSeq(rx, 5, Len(rx))
         ELSE UNCHANGED <<command, rx>>
    /\ pc' = "call"
    /\ UNCHANGED <<to_host, statics, events, ret, int_bits, host_owes, led, led_writes>>

\* ------------------------------------------------------------------------
\* sendPacket(command[YAW], command[PITCH], command[THROTTLE], command[TRIM])
\* ------------------------------------------------------------------------
\* SendPacketBegin without the reset of ones and zeroes
SendPacketBegin_NoReset ==
    /\ pc = "call"
    /\ UNCHANGED <<ones, zeroes>>
    /\ packet_bytes' = [i \in 0..3 |->
                          CASE i = YAW -> command[YAW] [] i = PITCH -> command[PITCH]
                            [] i = THROTTLE -> command[THROTTLE] [] i = TRIM -> command[TRIM]]
    /\ current_byte_index' = 0
    /\ current_bit_index' = BITS_IN_BYTE - 1
    /\ events' = <<<<"pulse", CYCLES_FOR_HEADER>>, <<"hold", HEADER_DELAY>>>>
    /\ led_writes' = header_burst
    /\ led' = LevelAfter(header_burst, led)
    /\ pc' = "bits"
    /\ UNCHANGED <<command, rx, to_host, ret, int_bits, host_owes>>

\* entry of sendPacket up to and including header()
SendPacketBegin ==
    /\ pc = "call"
    /\ ones' = 0
    /\ zeroes' = 0
    /\ packet_bytes' = [i \in 0..3 |->
                          CASE i = YAW -> command[YAW] [] i = PITCH -> command[PITCH]
                            [] i = THROTTLE -> command[THROTTLE] [] i = TRIM -> command[TRIM]]
    /\ current_byte_index' = 0
    /\ current_bit_index' = BITS_IN_BYTE - 1
    /\ events' = <<<<"pulse", CYCLES_FOR_HEADER>>, <<"hold", HEADER_DELAY>>>>
    /\ led_writes' = header_burst
    /\ led' = LevelAfter(header_burst, led)
    /\ pc' = "bits"
    /\ UNCHANGED <<command, rx, to_host, ret, int_bits, host_owes>>

\* SendBit with the byte advanced one bit early (current_bit_index <= 0)
SendBit_ShortByte ==
    /\ pc = "bits"
    /\ current_byte_index < BYTES_IN_PACKET
    /\ LET isOne == BitAnd(packet_bytes[current_byte_index], bit_masks[current_bit_index]) # 0
           nextBit == current_bit_index - 1
       IN /\ IF isOne
               THEN /\ events' = events \o <<<<"pulse", CYCLES_FOR_BIT>>, <<"hold", ONE>>>>
                    /\ ones' = WrapInt(ones + 1, int_bits)
                    /\ zeroes' = zeroes
               ELSE /\ events' = events \o <<<<"pulse", CYCLES_FOR_BIT>>, <<"hold", ZERO>>>>
                    /\ zeroes' = WrapInt(zeroes + 1, int_bits)
                    /\ ones' = ones
          /\ led_writes' = bit_burst
          /\ led' = LevelAfter(bit_burst, led)
          /\ IF nextBit <= 0
               THEN /\ current_bit_index' = BITS_IN_BYTE - 1
                    /\ current_byte_index' = current_byte_index + 1
               ELSE /\ current_bit_index' = nextBit
                    /\ current_byte_index' = current_byte_index
    /\ UNCHANGED <<command, rx, to_host, pc, packet_bytes, ret, int_bits, host_owes>>

\* SendBit with the bits of a byte taken least significant first
SendBit_LsbFirst ==
    /\ pc = "bits"
    /\ current_byte_index < BYTES_IN_PACKET
    /\ LET isOne == BitAnd(packet_bytes[current_byte_index],
                           bit_masks[(BITS_IN_BYTE - 1) - current_bit_index]) # 0
           nextBit == current_bit_index - 1
       IN /\ IF isOne
               THEN /\ events' = events \o <<<<"pulse", CYCLES_FOR_BIT>>, <<"hold", ONE>>>>
                    /\ ones' = WrapInt(ones + 1, int_bits)
                    /\ zeroes' = zeroes
               ELSE /\ events' = events \o <<<<"pulse", CYCLES_FOR_BIT>>, <<"hold", ZERO>>>>
                    /\ zeroes' = WrapInt(zeroes + 1, int_bits)
                    /\ ones' = ones
          /\ led_writes' = bit_burst
          /\ led' = LevelAfter(bit_burst, led)
          /\ IF nextBit < 0
               THEN /\ current_bit_index' = BITS_IN_BYTE - 1
                    /\ current_byte_index' = current_byte_index + 1
               ELSE /\ current_bit_index' = nextBit
                    /\ current_byte_index' = current_byte_index
    /\ UNCHANGED <<command, rx, to_host, pc, packet_bytes, ret, int_bits, host_owes>>

\* one iteration of the while loop over the bits
SendBit ==
    /\ pc = "bits"
    /\ current_byte_index < BYTES_IN_PACKET
    /\ LET isOne == BitAnd(packet_bytes[current_byte_index], bit_masks[current_bit_index]) # 0
           nextBit == current_bit_index - 1
       IN /\ IF isOne
               THEN /\ events' = events \o <<<<"pulse", CYCLES_FOR_BIT>>, <<"hold", ONE>>>>
                    /\ ones' = WrapInt(ones + 1, int_bits)
                    /\ zeroes' = zeroes
               ELSE /\ events' = events \o <<<<"pulse", CYCLES_FOR_BIT>>, <<"hold", ZERO>>>>
                    /\ zeroes' = WrapInt(zeroes + 1, int_bits)
                    /\ ones' = ones
          /\ led_writes' = bit_burst
          /\ led' = LevelAfter(bit_burst, led)
          /\ IF nextBit < 0
               THEN /\ current_bit_index' = BITS_IN_BYTE - 1
                    /\ current_byte_index' = current_byte_index + 1
               ELSE /\ current_bit_index' = nextBit
                    /\ current_byte_index' = current_byte_index
    /\ UNCHANGED <<command, rx, to_host, pc, packet_bytes, ret, int_bits, host_owes>>

\* SendPacketEnd with the loop exit tested one byte late
SendPacketEnd_Late ==
    /\ pc = "bits"
    /\ ~(current_byte_index <= BYTES_IN_PACKET)
    /\ events' = Append(events, <<"pulse", CYCLES_FOR_FOOTER>>)
    /\ led_writes' = footer_burst
    /\ led' = LevelAfter(footer_burst, led)
    /\ ret' = <<residual(ones, zeroes, int_bits)>>
    /\ pc' = "delay"
    /\ UNCHANGED <<command, rx, to_host, statics, int_bits, host_owes>>

\* exit of the while loop, footer(), the timing arithmetic and the return
SendPacketEnd ==
    /\ pc = "bits"
    /\ ~(current_byte_index < BYTES_IN_PACKET)
    /\ events' = Append(events, <<"pulse", CYCLES_FOR_FOOTER>>)
    /\ led_writes' = footer_burst
    /\ led' = LevelAfter(footer_burst, led)
    /\ ret' = <<residual(ones, zeroes, int_bits)>>
    /\ pc' = "delay"
    /\ UNCHANGED <<command, rx, to_host, statics, int_bits, host_owes>>

\* ------------------------------------------------------------------------
\* loop(): delay(sendPacket(...)) and Serial.write(READY_TO_ACCEPT_ACK)
\* ------------------------------------------------------------------------
\* delay(unsigned long ms) is called with the int that sendPacket returned:
\* the number of milliseconds it sleeps, as <<multiples of 2^16, rest>>
\* (a negative int r converts to 2^32 + r)
delay_ms(r) ==
    IF r >= 0 THEN <<r \div 65536, r % 65536>>
    ELSE <<65536 + (r \div 65536), r % 65536>>

\* the delay elapses
Delay ==
    /\ pc = "delay"
    /\ ret # <<>>
    /\ ret' = <<>>
    /\ pc' = "ack"
    /\ UNCHANGED <<command, rx, to_host, statics, events, int_bits, host_owes, led, led_writes>>

\* SignalReady that goes on to the next poll without writing
SignalReady_Silent ==
    /\ pc = "ack"
    /\ pc' = "poll"
    /\ UNCHANGED <<command, rx, to_host, statics, events, ret, int_bits, host_owes, led, led_writes>>

\* Serial.write(READY_TO_ACCEPT_ACK): waits for room in the transmit buffer
SignalReady ==
    /\ pc = "ack"
    /\ Len(to_host) < MaxTx
    /\ to_host' = Append(to_host, READY_TO_ACCEPT_ACK)
    /\ pc' = "poll"
    /\ UNCHANGED <<command, rx, statics, events, ret, int_bits, host_owes, led, led_writes>>

\* ------------------------------------------------------------------------
\* The serial line and the host
\* ------------------------------------------------------------------------
\* a byte from the host arrives in the receive buffer, at any moment
HostSend ==
    /\ Len(rx) < MaxRx
    /\ \E b \in HostBytes : rx' = Append(rx, b)
    /\ UNCHANGED <<command, to_host, pc, statics, events, ret, int_bits, host_owes, led, led_writes>>

\* the UART shifts the oldest written byte out to the host
UartDrain ==
    /\ to_host # <<>>
    /\ to_host' = Tail(to_host)
    /\ UNCHANGED <<command, rx, pc, statics, events, ret, int_bits, host_owes, led, led_writes>>

Device == Poll \/ SendPacketBegin \/ SendBit \/ SendPacketEnd \/ Delay \/ SignalReady

Next ==
    \/ Poll
    \/ SendPacketBegin
    \/ SendBit
    \/ SendPacketEnd
    \/ Delay
    \/ SignalReady
    \/ HostSend
    \/ UartDrain

Spec == Init /\ [][Next]_vars

\* the loop with its scheduling: the processor always executes the next
\* statement and the UART always shifts out a pending byte
LiveSpec == Init /\ [][Next]_vars /\ WF_vars(Device) /\ WF_vars(UartDrain)


\* ------------------------------------------------------------------------
\* One sendPacket call on its own: the command is any 4 bytes the host may
\* have delivered, the statics are as initialised, the host is silent
\* ------------------------------------------------------------------------
InitPacket ==
    /\ command \in [0..3 -> TestBytes]
    /\ rx = <<>>
    /\ to_host = <<>>
    /\ pc = "call"
    /\ ones = 0 /\ zeroes = 0
    /\ current_byte_index = 0 /\ current_bit_index = 0
    /\ packet_bytes = [i \in 0..3 |-> 0]
    /\ events = <<>>
    /\ ret = <<>>
    /\ int_bits \in IntWidths
    /\ led = "LOW"
    /\ led_writes = <<>>
    /\ host_owes = 0

NextPacket ==
    \/ SendPacketBegin
    \/ SendBit
    \/ SendPacketEnd
    \/ Delay

SpecPacket == InitPacket /\ [][NextPacket]_vars

\* ------------------------------------------------------------------------
\* The loop with a host that follows the request scheme of the file header:
\* it sends one update of 4 bytes for every ready byte it receives, the
\* bytes arriving one at a time, at any moment
\* ------------------------------------------------------------------------
\* the host receives the oldest written byte; a ready byte makes it owe
\* the 4 bytes of one update
HostReceiveReady ==
    /\ to_host # <<>>
    /\ host_owes + BYTES_IN_PACKET <= MaxOwed
    /\ to_host' = Tail(to_host)
    /\ host_owes' = IF Head(to_host) = READY_TO_ACCEPT_ACK
                      THEN host_owes + BYTES_IN_PACKET ELSE host_owes
    /\ UNCHANGED <<command, rx, pc, statics, events, ret, int_bits, led, led_writes>>

\* the next byte the host owes arrives in the receive buffer
HostSendOwed ==
    /\ host_owes > 0
    /\ Len(rx) < MaxRx
    /\ \E b \in HostBytes : rx' = Append(rx, b)
    /\ host_owes' = host_owes - 1
    /\ UNCHANGED <<command, to_host, pc, statics, events, ret, int_bits, led, led_writes>>

NextCredit ==
    \/ Poll
    \/ SendPacketBegin
    \/ SendBit
    \/ SendPacketEnd
    \/ Delay
    \/ SignalReady
    \/ HostReceiveReady
    \/ HostSendOwed

SpecCredit == Init /\ [][NextCredit]_vars

\* ------------------------------------------------------------------------
\* The loop entered with bytes already buffered: the host has sent up to
\* MaxBacklog bytes before the first poll and is silent afterwards
\* ------------------------------------------------------------------------
InitBacklog ==
    /\ command = DefaultCommand
    /\ \E n \in 0..MaxBacklog : rx \in [1..n -> HostBytes]
    /\ to_host = <<>>
    /\ pc = "poll"
    /\ ones = 0 /\ zeroes = 0
    /\ current_byte_index = 0 /\ current_bit_index = 0
    /\ packet_bytes = [i \in 0..3 |-> 0]
    /\ events = <<>>
    /\ ret = <<>>
    /\ int_bits \in IntWidths
    /\ led = "LOW"
    /\ led_writes = <<>>
    /\ host_owes = 0

NextBacklog ==
    \/ Poll
    \/ SendPacketBegin
    \/ SendBit
    \/ SendPacketEnd
    \/ Delay
    \/ SignalReady
    \/ UartDrain

SpecBacklog == InitBacklog /\ [][NextBacklog]_vars

\* ------------------------------------------------------------------------
\* The carrier: the loop without a host after it, and pulse() on its own
\* with any number of cycles from 0 to MaxCycles
\* ------------------------------------------------------------------------
\* state after setup(): digitalWrite(LED, LOW)
InitPulse ==
    /\ command = DefaultCommand
    /\ rx = <<>>
    /\ to_host = <<>>
    /\ pc = "pulse"
    /\ ones = 0 /\ zeroes = 0
    /\ current_byte_index = 0 /\ current_bit_index = 0
    /\ packet_bytes = [i \in 0..3 |-> 0]
    /\ events = <<>>
    /\ ret = <<>>
    /\ int_bits \in IntWidths
    /\ led = "LOW"
    /\ led_writes = <<>>
    /\ host_owes = 0

\* one call pulse(n)
CallPulse ==
    /\ pc = "pulse"
    /\ \E n \in 0..MaxCycles :
          /\ events' = <<<<"pulse", n>>>>
          /\ led_writes' = pulse(n)
          /\ led' = LevelAfter(pulse(n), led)
    /\ UNCHANGED <<command, rx, to_host, pc, statics, ret, int_bits, host_owes>>

InitCarrier == InitBacklog \/ InitPulse

NextCarrier ==
    \/ Poll
    \/ SendPacketBegin
    \/ SendBit
    \/ SendPacketEnd
    \/ Delay
    \/ SignalReady
    \/ UartDrain
    \/ CallPulse

SpecCarrier == InitCarrier /\ [][NextCarrier]_vars

\* ========================================================================
\* Properties
\* ========================================================================
\* bit k (7 = most significant) of byte b, by division
BitOf(b, k) == (b \div (2^k)) % 2

\* number of 1-bits in the 4 bytes of c
OnesIn(c) ==
    LET S(j) == BitOf(c[j], 0) + BitOf(c[j], 1) + BitOf(c[j], 2) + BitOf(c[j], 3)
              + BitOf(c[j], 4) + BitOf(c[j], 5) + BitOf(c[j], 6) + BitOf(c[j], 7)
    IN S(0) + S(1) + S(2) + S(3)

\* the pulse train of the wire format for the 4 bytes of c: header, then
\* byte 0..3, each most significant bit first, then footer
WireFormat(c) ==
    <<<<"pulse", 77>>, <<"hold", 1998>>>>
    \o [n \in 1..64 |->
          IF n % 2 = 1 THEN <<"pulse", 12>>
          ELSE LET k == (n \div 2) - 1      \* bit number 0..31 in the packet
               IN IF BitOf(c[k \div 8], 7 - (k % 8)) = 1
                    THEN <<"hold", 688>> ELSE <<"hold", 288>>]
    \o <<<<"pulse", 12>>>>

\* what a receiver reads from a complete pulse train: the 32 holds between
\* header and footer, 688 -> 1 and 288 -> 0, 8 at a time, first bit highest
DecodedBit(ev, k) == IF ev[2 * k + 4][2] = 688 THEN 1 ELSE 0
DecodedBytes(ev) ==
    [j \in 0..3 |->
        128 * DecodedBit(ev, 8 * j)     + 64 * DecodedBit(ev, 8 * j + 1)
      + 32  * DecodedBit(ev, 8 * j + 2) + 16 * DecodedBit(ev, 8 * j + 3)
      + 8   * DecodedBit(ev, 8 * j + 4) + 4  * DecodedBit(ev, 8 * j + 5)
      + 2   * DecodedBit(ev, 8 * j + 6) +      DecodedBit(ev, 8 * j + 7)]

\* nominal duration in microseconds of a pulse train: 26 us per cycle
RECURSIVE Duration(_)
Duration(ev) ==
    IF ev = <<>> THEN 0
    ELSE (IF Head(ev)[1] = "pulse" THEN 26 * Head(ev)[2] ELSE Head(ev)[2])
         + Duration(Tail(ev))

IsPrefix(s, t) == Len(s) <= Len(t) /\ s = SubSeq(t, 1, Len(s))

\* sendPacket has returned and its value has not yet been slept
Returned == pc = "delay"

\* ------------------------------------------------------------------------
\* C1: one sendPacket call emits one 77-cycle burst, one 1998 us hold, then
\* exactly 32 pairs of (12-cycle burst, 688 us or 288 us hold), then one
\* 12-cycle burst with nothing after it; at return ones + zeroes = 32.
\* ------------------------------------------------------------------------
C1_PacketShape ==
    Returned =>
        /\ Len(events) = 67
        /\ events[1] = <<"pulse", 77>>
        /\ events[2] = <<"hold", 1998>>
        /\ \A k \in 1..32 :
              /\ events[2 * k + 1] = <<"pulse", 12>>
              /\ events[2 * k + 2] \in {<<"hold", 688>>, <<"hold", 288>>}
        /\ events[67] = <<"pulse", 12>>
        /\ ones + zeroes = 32

\* a packet with ones and zeroes in every byte has been sent completely
C1_Witness ==
    /\ Returned
    /\ command = [i \in 0..3 |-> IF i = TRIM THEN 128 ELSE 63]
    /\ ones = 19 /\ zeroes = 13
    /\ Len(events) = 67

\* ------------------------------------------------------------------------
\* C2: round trip.  Reading the 32 holds of an emitted packet (688 -> 1,
\* 288 -> 0), 8 at a time and most significant bit first, gives back the 4
\* bytes sendPacket was called with, in the order yaw, pitch, throttle,
\* trim, all 8 bits of each byte included.
\* ------------------------------------------------------------------------
C2_RoundTrip ==
    Returned =>
        /\ DecodedBytes(events)[0] = command[YAW]
        /\ DecodedBytes(events)[1] = command[PITCH]
        /\ DecodedBytes(events)[2] = command[THROTTLE]
        /\ DecodedBytes(events)[3] = command[TRIM]

\* a packet whose bytes differ from each other, are not bit palindromes and
\* include one with bit 7 set has been sent and decodes to itself
C2_Witness ==
    /\ Returned
    /\ command[YAW] = 128 /\ command[PITCH] = 1
    /\ command[THROTTLE] = 255 /\ command[TRIM] = 63
    /\ DecodedBytes(events) = command

\* the last 4 bytes of the receive buffer: the block delivered most recently
NewestBlock(buf) == [i \in 0..3 |-> buf[Len(buf) - 3 + i]]
\* the first 4 bytes of the receive buffer: the oldest unread bytes
OldestBlock(buf) == [i \in 0..3 |-> buf[i + 1]]

\* the poll of the serial buffer is taking place in this step
PollStep == pc = "poll" /\ pc' = "call"

\* ------------------------------------------------------------------------
\* C3 as claimed: whenever a block of 4 update bytes has fully arrived
\* before the poll of an iteration, the packet of that iteration carries
\* exactly that block.  (Stated for the block that arrived last.)
\* ------------------------------------------------------------------------
C3_AnyArrivedBlock ==
    [][(PollStep /\ Len(rx) >= 4) => command' = NewestBlock(rx)]_vars

\* ------------------------------------------------------------------------
\* C3 as amended: whenever the 4 bytes of an update are the oldest unread
\* bytes of the serial buffer at the poll of an iteration (nothing unread
\* lies ahead of them), the packet transmitted in that iteration carries
\* exactly those 4 bytes as yaw, pitch, throttle, trim: the poll adopts
\* them, nothing changes the command before the footer, and the emitted
\* packet decodes to them.
\* ------------------------------------------------------------------------
C3_OldestBlockTransmitted ==
    /\ [][(PollStep /\ Len(rx) >= 4) => command' = OldestBlock(rx)]_vars
    /\ [][(pc \in {"call", "bits"}) => command' = command]_vars
    /\ [](Returned => DecodedBytes(events) = command)

\* an update that the host delivered has been adopted and transmitted
\* while a later byte is already waiting behind it
C3_Witness ==
    /\ Returned
    /\ command = [i \in 0..3 |-> IF i \in {YAW, TRIM} THEN 1 ELSE 255]
    /\ DecodedBytes(events) = command
    /\ Len(rx) = 1

\* ------------------------------------------------------------------------
\* C4 as claimed: the time slept after a packet is 100000 us minus the
\* packet's transmission time, so that transmission plus sleep is the
\* 100 ms period whatever the data.
\* ------------------------------------------------------------------------
C4_ExactPeriod ==
    Returned =>
        /\ delay_ms(ret[1])[1] = 0
        /\ Duration(events) + 1000 * delay_ms(ret[1])[2] = 100000

\* ------------------------------------------------------------------------
\* C5 as claimed: the residual computed by sendPacket does not increase
\* with the ones count: for zeroes count z and ones counts a <= b, the
\* residual for (b, z) is at most the residual for (a, z).  (Stated for
\* the counts b, z of a packet that was sent and every smaller a.)
\* ------------------------------------------------------------------------
C5_Monotone ==
    Returned =>
        \A a \in 0..ones : ret[1] <= residual(a, zeroes, int_bits)

\* ------------------------------------------------------------------------
\* C6: idempotence.  Whatever packets were sent before, a sendPacket call
\* with command C emits the pulse train of the wire format for C and
\* returns the residual of C's own bit counts, exactly as a first call
\* does; nothing of the statics carries over from the packet before.
\* ------------------------------------------------------------------------
C6_Idempotent ==
    Returned =>
        /\ events = WireFormat(command)
        /\ ones = OnesIn(command)
        /\ zeroes = 32 - OnesIn(command)
        /\ ret = <<residual(OnesIn(command), 32 - OnesIn(command), int_bits)>>

\* a packet with a new command has been sent after an earlier packet (whose
\* ready byte is still in the transmit buffer)
C6_Witness ==
    /\ Returned
    /\ to_host = <<129>>
    /\ command = [i \in 0..3 |-> IF i = PITCH THEN 1 ELSE 255]
    /\ events = WireFormat(command)

\* ------------------------------------------------------------------------
\* C7: a poll consumes exactly 4 bytes when at least 4 are buffered and
\* none otherwise; with 0..3 bytes buffered it leaves the buffer and the
\* command unchanged, and the previous command is what the packet of that
\* iteration is built from.
\* ------------------------------------------------------------------------
C7_PollConsumes ==
    /\ [][PollStep =>
            IF Len(rx) >= 4
              THEN Len(rx') = Len(rx) - 4 /\ rx' = SubSeq(rx, 5, Len(rx))
              ELSE rx' = rx /\ command' = command]_vars
    /\ [][(pc = "call" /\ pc' = "bits") => packet_bytes' = command /\ command' = command]_vars

\* the default command is being retransmitted with 3 bytes of an update
\* waiting: every poll so far found fewer than 4 bytes and consumed none
C7_Witness ==
    /\ pc = "bits"
    /\ to_host = <<129>>
    /\ Len(rx) = 3
    /\ command = DefaultCommand
    /\ packet_bytes = DefaultCommand

\* ------------------------------------------------------------------------
\* C8: in every loop iteration the device writes exactly one byte to the
\* host, of value 129, after the packet's footer and residual delay and
\* before the next poll; nothing else is ever written to the host.
\* ------------------------------------------------------------------------
C8_OneReadyBytePerIteration ==
    [][/\ (to_host' # to_host) =>
             \/ (to_host # <<>> /\ to_host' = Tail(to_host) /\ pc' = pc)
             \/ (pc = "ack" /\ pc' = "poll" /\ to_host' = Append(to_host, 129))
       /\ (pc = "bits" /\ pc' # pc) => (pc' = "delay" /\ to_host' = to_host)
       /\ (pc = "delay" /\ pc' # pc) => (pc' = "ack" /\ to_host' = to_host)
       /\ (pc = "ack" /\ pc' # pc) => (pc' = "poll" /\ to_host' = Append(to_host, 129))
       /\ (pc' = "poll" /\ pc # "poll") => pc = "ack"
      ]_vars

\* the ready byte of an iteration has been written and the next poll is due
C8_Witness ==
    /\ pc = "poll"
    /\ to_host = <<129>>
    /\ Len(events) = 67

\* ------------------------------------------------------------------------
\* C9: the transmission loop never stops.  Whatever the host sends, the bit
\* loop of sendPacket ends after 32 iterations, and every packet is
\* followed by another poll and another complete packet, for ever.
\* ------------------------------------------------------------------------
C9_NeverStops ==
    /\ [](ones + zeroes <= 32)
    /\ [](pc = "bits" => ones + zeroes = 8 * current_byte_index + (7 - current_bit_index))
    /\ []<>(pc = "poll")
    /\ []<>Returned

\* a packet has been completed while the receive buffer is full and an
\* earlier ready byte has not left yet
C9_Witness ==
    /\ Returned
    /\ Len(rx) = MaxRx
    /\ to_host # <<>>
    /\ ones + zeroes = 32

\* ------------------------------------------------------------------------
\* C10: framing is atomic with respect to command updates.  With host
\* bytes arriving at any moment, all bits of a packet encode the one value
\* the command had when sendPacket was called, and the command array is
\* not written between the header and the footer.
\* ------------------------------------------------------------------------
C10_AtomicFraming ==
    (pc \in {"bits", "delay"}) =>
        /\ packet_bytes = command
        /\ Len(events) = 2 + 2 * (ones + zeroes) + (IF Returned THEN 1 ELSE 0)
        /\ IsPrefix(events, WireFormat(command))

\* a complete update is waiting in the receive buffer in the middle of a
\* packet, after the throttle byte has been started
C10_Witness ==
    /\ pc = "bits"
    /\ current_byte_index = THROTTLE /\ current_bit_index = 3
    /\ Len(rx) >= 4
    /\ packet_bytes = command

\* ------------------------------------------------------------------------
\* C11: for every command the transmission time of the packet is below
\* the 100 ms period and the value that sendPacket returns and delay()
\* receives is strictly positive: delay() is never called with zero or
\* with a negative argument.
\* ------------------------------------------------------------------------
C11_PositiveDelay ==
    Returned =>
        /\ Duration(events) < 100000
        /\ ret[1] > 0
        /\ delay_ms(ret[1])[1] = 0
        /\ delay_ms(ret[1])[2] > 0

\* the longest packet, 32 one-bits, has been sent and its delay is due
C11_Witness ==
    /\ Returned
    /\ command = [i \in 0..3 |-> 255]
    /\ ones = 32
    /\ Duration(events) = 36312
    /\ ret[1] > 0

\* ------------------------------------------------------------------------
\* C12: the packet of every iteration carries the 4 bytes of the update
\* consumed last, or (63, 63, 0, 63) when none has been consumed yet.
\* Nothing but a poll that consumes 4 bytes changes the command array, so
\* a command is sent again in every iteration until a later poll replaces
\* it.
\* ------------------------------------------------------------------------
C12_LastUpdateRetransmitted ==
    /\ [][(command' # command) =>
             (PollStep /\ Len(rx) >= 4 /\ command' = OldestBlock(rx))]_vars
    /\ [](command = DefaultCommand \/ \A i \in 0..3 : command[i] \in HostBytes)
    /\ [](Returned => events = WireFormat(command))

\* a command taken from the host has been sent in one packet and, with no
\* byte waiting, sendPacket is about to be called with it again
C12_Witness ==
    /\ pc = "call"
    /\ rx = <<>>
    /\ command = [i \in 0..3 |-> IF i = THROTTLE THEN 255 ELSE 1]
    /\ packet_bytes = command
    /\ events = WireFormat(command)

\* ------------------------------------------------------------------------
\* C13 as claimed: with a host that sends exactly one 4-byte update for
\* each ready byte it receives, the bytes arriving one at a time at any
\* moment, nothing is lost and nothing builds up: the serial buffer never
\* holds more than 4 bytes and the updates stay whole (the unread bytes
\* and the bytes still owed always make up whole updates).
\* ------------------------------------------------------------------------
C13_NothingBuildsUp ==
    /\ Len(rx) <= 4
    /\ (Len(rx) + host_owes) % 4 = 0

\* the last whole update of the receive buffer, counting updates of 4
\* bytes from its oldest byte
NewestUpdate(buf) ==
    [i \in 0..3 |-> buf[4 * ((Len(buf) \div 4) - 1) + i + 1]]

\* ------------------------------------------------------------------------
\* C14 as claimed: when two or more complete updates are buffered at the
\* poll, the command adopted, and sent in that iteration, is the newest
\* complete update.
\* ------------------------------------------------------------------------
C14_NewestAdopted ==
    [][(PollStep /\ Len(rx) >= 8) => command' = NewestUpdate(rx)]_vars

\* ------------------------------------------------------------------------
\* C14 as amended: when two or more complete updates are buffered at the
\* poll, the command adopted, and sent in that iteration, is the oldest
\* complete update; the poll removes only that one, every newer update
\* stays in the buffer for the iterations that follow.
\* ------------------------------------------------------------------------
C14_OldestAdopted ==
    /\ [][(PollStep /\ Len(rx) >= 8) =>
             /\ command' = OldestBlock(rx)
             /\ rx' = SubSeq(rx, 5, Len(rx))
             /\ NewestUpdate(rx') = NewestUpdate(rx)]_vars
    /\ [](Returned => DecodedBytes(events) = command /\ packet_bytes = command)

\* of two buffered updates the older one, (1,1,1,1), has been sent in the
\* first packet while the newer one, (255,255,255,255), is still buffered
C14_Witness ==
    /\ Returned
    /\ to_host = <<>>
    /\ command = [i \in 0..3 |-> 1]
    /\ DecodedBytes(events) = command
    /\ rx = <<255, 255, 255, 255>>

\* ------------------------------------------------------------------------
\* C15 as claimed: total_packet_time as computed at the end of sendPacket
\* is the sum of the nominal durations of the events the call emitted
\* (26 us per burst cycle, 1998 us header hold, 688 us per one-hold,
\* 288 us per zero-hold), that is 23512 + 400 * (number of 1-bits).
\* ------------------------------------------------------------------------
C15_TotalIsDuration ==
    Returned =>
        /\ total_packet_time(ones, zeroes, int_bits) = Duration(events)
        /\ total_packet_time(ones, zeroes, int_bits) = 23512 + 400 * OnesIn(command)

\* ------------------------------------------------------------------------
\* C17 as claimed: the loop sleeps the whole number of milliseconds got by
\* truncating 100 - total_packet_time / 1000, and transmission time plus
\* slept time is at most 100000 us and more than 99000 us.
\* ------------------------------------------------------------------------
C17_PacingError ==
    Returned =>
        /\ ret[1] = TruncDiv(100000 - total_packet_time(ones, zeroes, int_bits), 1000)
        /\ delay_ms(ret[1])[1] = 0
        /\ Duration(events) + 1000 * delay_ms(ret[1])[2] <= 100000
        /\ Duration(events) + 1000 * delay_ms(ret[1])[2] > 99000

\* ------------------------------------------------------------------------
\* C18 as claimed: no intermediate of the timing arithmetic overflows a
\* 16-bit signed int: header_time, footer_time, total_bit_start_time,
\* ones_time, zeroes_time and total_packet_time, computed without
\* wrap-around, all lie in -32768..32767, so the 16-bit computation gives
\* the same values.
\* ------------------------------------------------------------------------
C18_NoOverflow ==
    (Returned /\ int_bits = 16) =>
        /\ header_time(16) = header_time(32)
        /\ footer_time(16) = footer_time(32)
        /\ total_bit_start_time(16) = total_bit_start_time(32)
        /\ ones_time(ones, 16) = ones_time(ones, 32)
        /\ zeroes_time(zeroes, 16) = zeroes_time(zeroes, 32)
        /\ total_packet_time(ones, zeroes, 16) = total_packet_time(ones, zeroes, 32)
        /\ total_packet_time(ones, zeroes, 32) \in -32768..32767

\* n alternations of the carrier: HIGH, LOW, HIGH, LOW, ...
Alternations(n) == [i \in 1..(2 * n) |-> IF i % 2 = 1 THEN "HIGH" ELSE "LOW"]

\* number of cycles of the last burst in a sequence of events
LastBurst(ev) ==
    IF ev[Len(ev)][1] = "pulse" THEN ev[Len(ev)][2] ELSE ev[Len(ev) - 1][2]

\* ------------------------------------------------------------------------
\* C16: the carrier output is low whenever no burst is in progress.
\* pulse(n), n >= 0, writes exactly n times HIGH then LOW, starting with
\* HIGH and leaving the output LOW (nothing for n = 0), and the output is
\* LOW in every state in which a header hold, a bit hold, the residual
\* delay, a serial read or the ready write takes place.
\* ------------------------------------------------------------------------
C16_CarrierLow ==
    /\ led = "LOW"
    /\ (events # <<>>) => led_writes = Alternations(LastBurst(events))
    /\ (events = <<>>) => led_writes = <<>>

\* the header burst of 77 cycles is over and the header hold takes place
C16_Witness ==
    /\ pc = "bits"
    /\ events = <<<<"pulse", 77>>, <<"hold", 1998>>>>
    /\ Len(led_writes) = 154
    /\ led_writes[1] = "HIGH"
    /\ led = "LOW"

====
